---- MODULE Spec2Model ----
(***************************************************************************)
(* Earthquake notifier of usmanagabot: the cron pass                       *)
(* EarthquakeNotifierCommand.execute, the settings handlers that change    *)
(* the configuration it reads, and normalizeText.                          *)
(*                                                                         *)
(* A pass is modelled at the granularity of its awaits: every action is    *)
(* one awaited call together with the synchronous code that follows it up  *)
(* to the next await.  Several passes may be in flight together, since the *)
(* cron trigger does not wait for the previous pass.                       *)
(***************************************************************************)
EXTENDS Integers, Sequences, FiniteSets, TLC

(* ------------------------------ bounds --------------------------------- *)
NumTenants == 2
NumPasses == 2
MaxStarts == 2
NumEvents == 2
MaxFeedLen == 2
NumUsers == 2
NumCommands == 2
MaxCommands == 2
MaxTextCommands == 1
MaxTextLen == 3
LongFeedLen == 27

(* ------------------------- program constants --------------------------- *)
MaxRecent == 25
KeepLogs == 50

Tenants == 1..NumTenants
Passes == 1..NumPasses
EventIds == 1..NumEvents
Users == 1..NumUsers
Commands == 1..NumCommands

NULL == "null"

(* --------------------------- normalizeText ----------------------------- *)
(* A text is a sequence of Unicode code points.                            *)
CapitalIDot == 304
CapitalI == 73
SmallDotlessI == 305
CapitalSCedilla == 350
SmallSCedilla == 351
CapitalGBreve == 286
SmallGBreve == 287
CapitalUDiaeresis == 220
SmallUDiaeresis == 252
CapitalODiaeresis == 214
SmallODiaeresis == 246
CapitalCCedilla == 199
SmallCCedilla == 231

SmallI == 105
SmallS == 115
SmallG == 103
SmallU == 117
SmallO == 111
SmallC == 99

\* ReplaceTurkish with the patterns of the small letters missing
ReplaceTurkishCapitalsOnly(c) ==
    CASE c \in {CapitalIDot, CapitalI} -> SmallI
      [] c = CapitalSCedilla -> SmallS
      [] c = CapitalGBreve -> SmallG
      [] c = CapitalUDiaeresis -> SmallU
      [] c = CapitalODiaeresis -> SmallO
      [] c = CapitalCCedilla -> SmallC
      [] OTHER -> c

\* the chain of .replace(/x/g, 'y') calls, per character
ReplaceTurkish(c) ==
    CASE c \in {CapitalIDot, CapitalI, SmallDotlessI} -> SmallI
      [] c \in {CapitalSCedilla, SmallSCedilla} -> SmallS
      [] c \in {CapitalGBreve, SmallGBreve} -> SmallG
      [] c \in {CapitalUDiaeresis, SmallUDiaeresis} -> SmallU
      [] c \in {CapitalODiaeresis, SmallODiaeresis} -> SmallO
      [] c \in {CapitalCCedilla, SmallCCedilla} -> SmallC
      [] OTHER -> c

\* String.prototype.toLowerCase on one code point, for the code points up to
\* U+017F: ASCII, Latin-1 and the pairs of Latin Extended-A.  U+0130 is the
\* one that becomes two code points and is left to ToLowerCase.
LowerChar(c) ==
    CASE c \in 65..90 -> c + 32
      [] c \in (192..222) \ {215} -> c + 32
      [] c \in (256..303) \cup (306..311) \cup (330..375) /\ c % 2 = 0 -> c + 1
      [] c \in (313..328) \cup (377..382) /\ c % 2 = 1 -> c + 1
      [] c = 376 -> 255
      [] OTHER -> c

CombiningDot == 775

\* toLowerCase: U+0130 becomes i followed by the combining dot above
RECURSIVE ToLowerCase(_)
ToLowerCase(s) ==
    IF s = <<>> THEN <<>>
    ELSE (IF Head(s) = CapitalIDot THEN <<SmallI, CombiningDot>>
          ELSE <<LowerChar(Head(s))>>) \o ToLowerCase(Tail(s))

\* the white space and line terminators trim() removes, up to U+017F
WhiteSpace == {9, 10, 11, 12, 13, 32, 160}

RECURSIVE TrimStart(_)
TrimStart(s) ==
    IF s # <<>> /\ Head(s) \in WhiteSpace THEN TrimStart(Tail(s)) ELSE s

RECURSIVE TrimEnd(_)
TrimEnd(s) ==
    IF s # <<>> /\ s[Len(s)] \in WhiteSpace
    THEN TrimEnd(SubSeq(s, 1, Len(s) - 1))
    ELSE s

Trim(s) == TrimEnd(TrimStart(s))

\* normalizeText with the g flag missing: each pattern replaces its first match
normalizeTextFirstMatch(text) ==
    IF text = <<>> THEN <<>>
    ELSE Trim(ToLowerCase([i \in 1..Len(text) |->
                 IF \A j \in 1..(i - 1) : text[j] # text[i]
                 THEN ReplaceTurkish(text[i]) ELSE text[i]]))

normalizeText(text) ==
    IF text = <<>> THEN <<>>
    ELSE Trim(ToLowerCase([i \in 1..Len(text) |-> ReplaceTurkish(text[i])]))

(* ------------------------------ data ----------------------------------- *)
\* magnitudes in tenths: event 2 has 4.9, the others 5.0; the limits a guild
\* may set are 4.5 and 5.0
Mag(id) == IF id = 2 THEN 49 ELSE 50
MagLimits == {45, 50}

\* everyone_ping_threshold is null or a number: null is the empty tuple, a
\* number the tuple that holds it
NoThreshold == <<>>
\* the thresholds setEveryonePingThreshold may store: 0 and 5.0
EveryoneThresholds == {<<0>>, <<50>>}

Feature(id) == [id |-> id, mag |-> Mag(id)]
Features == {Feature(id) : id \in EventIds}
\* a feed response: any list of features, repeated ids included
Feeds == UNION {[1..n -> Features] : n \in 0..MaxFeedLen}

\* a geocoder answer that names no place
NoGeo == [locality |-> <<>>, city |-> <<>>, principalSubdivision |-> <<>>]

Istanbul == <<304, 115, 116, 97, 110, 98, 117, 108>>
Kadikoy == <<75, 97, 100, 305, 107, 246, 121>>
GeoResponses ==
    { NoGeo,
      [locality |-> Kadikoy, city |-> Istanbul, principalSubdivision |-> Istanbul] }

\* EarthquakeLogs row
Log(source_id, is_delivered, timestamp) ==
    [source_id |-> source_id, is_delivered |-> is_delivered, timestamp |-> timestamp]
NoLog == Log(0, FALSE, 0)

\* a ledger that already holds KeepLogs rows; its oldest row is event 1
FullLedger ==
    {Log(IF i = 1 THEN 1 ELSE 1000 + i, TRUE, i) : i \in 1..KeepLogs}
InitLedgers == {{}, FullLedger}

\* EarthquakeSubscription row; raw is the text the subscriber gave, kept
\* beside the row as history
Subscription(id, guild, user, city_raw) ==
    [id |-> id, guild |-> guild, user |-> user,
     city |-> normalizeText(city_raw), raw |-> city_raw]

\* EarthquakeSubscription rows present at start
InitSubs ==
    { Subscription(1, 1, 1, Istanbul),
      Subscription(2, 1, 2, Istanbul),
      Subscription(3, 1, 2, Kadikoy),
      Subscription(4, 2, 2, Istanbul) }

(* ------------------------------ state ---------------------------------- *)
VARIABLES
    cfg,        \* Earthquake row of each guild
    ledger,     \* EarthquakeLogs rows of each guild
    subs,       \* EarthquakeSubscription rows
    started,    \* cron firings so far
    run,        \* locals of each pass in flight
    committed,  \* history: <<guild, source_id>> of every row ever saved
    cmd,        \* locals of each subscription command in flight
    issued      \* subscription commands so far

vars == <<cfg, ledger, subs, started, run, committed, cmd, issued>>

Keys(logs) == UNION {{<<t, l.source_id>> : l \in logs[t]} : t \in Tenants}

Halted(pcv) ==
    [ pc |-> pcv, guilds |-> <<>>, gi |-> 0, earthquakes |-> {},
      features |-> <<>>, recent_earthquakes |-> <<>>, ei |-> 0,
      existing_log |-> NoLog,
      subscribedUserIds |-> <<>>, geo_translate |-> <<>>,
      geo_response |-> NoGeo, locations |-> <<>>, queried |-> FALSE,
      content |-> <<>>, is_delivered |-> FALSE, di |-> 0,
      posts |-> 0, rejected |-> 0, dms |-> <<>>, failed |-> <<>>, known |-> {} ]

\* what findOne(EarthquakeSubscription, ...) gives when no row matches
NoSub == [id |-> 0, guild |-> 0, user |-> 0, city |-> <<>>, raw |-> <<>>]

\* the locals of a subscription command; no city (null) is the empty text
NoCommand ==
    [ pc |-> "idle", subcommand |-> "list", guild |-> 0, user |-> 0,
      target_user |-> 0, admin |-> FALSE, city_raw |-> <<>>, city |-> <<>>,
      found |-> NoSub, shown |-> {} ]

\* the row prepareCommandData creates for a guild: disabled, no channel, no
\* url, no role to ping and no threshold for @everyone yet; the limit is one
\* of MagLimits and setMagnitudeLimit changes it
DefaultRow ==
    [is_enabled |-> FALSE, channel_id |-> NULL,
     seismicportal_api_url |-> NULL, magnitude_limit |-> 50,
     ping_role_id |-> NULL, everyone_ping_threshold |-> NoThreshold]

Start(rows) ==
    /\ cfg = rows
    /\ \E logs \in InitLedgers : ledger = [t \in Tenants |-> logs]
    /\ subs = InitSubs
    /\ started = 0
    /\ run = [p \in Passes |-> Halted("idle")]
    /\ committed = Keys(ledger)
    /\ cmd = [c \in Commands |-> NoCommand]
    /\ issued = 0

Init == Start([t \in Tenants |-> DefaultRow])

(* ------------------------ pure parts of execute ------------------------ *)
Slice(s, n) == SubSeq(s, 1, IF Len(s) < n THEN Len(s) ELSE n)

\* Select dropping only the events whose row is marked delivered
SelectDeliveredOnly(features, guild, earthquakes) ==
    LET recent_earthquakes ==
            Slice(SelectSeq(features, LAMBDA eq : eq.mag >= guild.magnitude_limit),
                  MaxRecent)
    IN Slice(SelectSeq(recent_earthquakes,
                       LAMBDA eq : ~ \E e \in earthquakes :
                                       e.source_id = eq.id /\ e.is_delivered),
             MaxRecent)

\* Select without the comparison against the rows read
SelectNoDedup(features, guild, earthquakes) ==
    Slice(SelectSeq(features, LAMBDA eq : eq.mag >= guild.magnitude_limit), MaxRecent)

\* Select without the magnitude filter
SelectNoLimit(features, guild, earthquakes) ==
    Slice(SelectSeq(features,
                    LAMBDA eq : ~ \E e \in earthquakes : e.source_id = eq.id),
          MaxRecent)

\* Select handing the events over newest last
SelectReversed(features, guild, earthquakes) ==
    LET kept == Slice(SelectSeq(features,
                          LAMBDA eq : /\ eq.mag >= guild.magnitude_limit
                                      /\ ~ \E e \in earthquakes : e.source_id = eq.id),
                      MaxRecent)
    IN [i \in 1..Len(kept) |-> kept[Len(kept) + 1 - i]]

\* Select dropping the known ids before the cap
SelectDedupBeforeCap(features, guild, earthquakes) ==
    Slice(SelectSeq(features,
                    LAMBDA eq : /\ eq.mag >= guild.magnitude_limit
                                /\ ~ \E e \in earthquakes : e.source_id = eq.id),
          MaxRecent)

\* the list the event loop runs over, from the feed, the guild's row and
\* the rows read before the fetch
Select(features, guild, earthquakes) ==
    LET recent_earthquakes ==
            Slice(SelectSeq(features, LAMBDA eq : eq.mag >= guild.magnitude_limit),
                  MaxRecent)
        unseen ==
            IF earthquakes # {}
            THEN SelectSeq(recent_earthquakes,
                           LAMBDA eq : ~ \E e \in earthquakes : e.source_id = eq.id)
            ELSE recent_earthquakes
    IN IF Len(recent_earthquakes) = 0 THEN <<>> ELSE Slice(unseen, MaxRecent)

\* Stale with the rows ordered oldest first
StaleOldestKept(logs) ==
    IF Cardinality(logs) > KeepLogs
    THEN {l \in logs : Cardinality({m \in logs : m.timestamp < l.timestamp}) >= KeepLogs}
    ELSE {}

\* Stale keeping one row more
StaleKeepOneMore(logs) ==
    IF Cardinality(logs) > KeepLogs + 1
    THEN {l \in logs :
            Cardinality({m \in logs : m.timestamp > l.timestamp}) >= KeepLogs + 1}
    ELSE {}

\* rows that find(order: timestamp DESC).slice(KeepLogs) removes
Stale(logs) ==
    IF Cardinality(logs) > KeepLogs
    THEN {l \in logs : Cardinality({m \in logs : m.timestamp > l.timestamp}) >= KeepLogs}
    ELSE {}

\* Pruned with the removal forgotten
PrunedNever(logs) == logs

Pruned(logs) == logs \ Stale(logs)

Unknown == <<85, 110, 107, 110, 111, 119, 110>>

\* value: geo_translate || 'Unknown'
Display(geo_translate) ==
    IF geo_translate = <<>> THEN Unknown ELSE geo_translate

\* GeoTranslate taking the city before the locality
GeoTranslateCityFirst(geo) ==
    IF geo.city # <<>> THEN geo.city
    ELSE IF geo.locality # <<>> THEN geo.locality
    ELSE geo.principalSubdivision

\* geo_response.locality || geo_response.city || geo_response.principalSubdivision
GeoTranslate(geo) ==
    IF geo.locality # <<>> THEN geo.locality
    ELSE IF geo.city # <<>> THEN geo.city
    ELSE geo.principalSubdivision

Locations(geo) ==
    LET named == SelectSeq(<<geo.locality, geo.city, geo.principalSubdivision>>,
                           LAMBDA loc : loc # <<>>)
    IN [i \in 1..Len(named) |-> normalizeText(named[i])]

Range(s) == {s[i] : i \in 1..Len(s)}

RECURSIVE Ascending(_)
Ascending(S) ==
    IF S = {} THEN <<>>
    ELSE LET m == CHOOSE x \in S : \A y \in S : x <= y
         IN <<m>> \o Ascending(S \ {m})

\* SubscribedUserIds without the Set: one entry for every matching row
SubscribedUserIdsPerRow(rows, gid, locations) ==
    LET matched == {s \in rows : s.guild = gid /\ s.city \in Range(locations)}
        listed == CHOOSE f \in [1..Cardinality(matched) -> matched] :
                      \A i, j \in 1..Cardinality(matched) : f[i] = f[j] => i = j
    IN [i \in 1..Cardinality(matched) |-> listed[i].user]

\* the distinct users of the guild's rows whose city is one of the locations
SubscribedUserIds(rows, gid, locations) ==
    IF Len(locations) > 0
    THEN Ascending({sub.user : sub \in {s \in rows : s.guild = gid /\ s.city \in Range(locations)}})
    ELSE <<>>

\* the words of the message content, which the code joins with one blank
RoleMention(ping_role_id) == <<"<@&", ping_role_id, ">">>
Everyone == <<"@everyone">>

\* Content with the @everyone marker added only after a role mention
ContentEveryoneAfterRole(guild, eq) ==
    LET content == IF guild.ping_role_id # NULL
                   THEN <<RoleMention(guild.ping_role_id)>> ELSE <<>>
    IN IF /\ content # <<>>
          /\ guild.everyone_ping_threshold # NoThreshold
          /\ eq.mag >= guild.everyone_ping_threshold[1]
       THEN Append(content, Everyone)
       ELSE content

\* lines 170-177: the role mention when a role is set, then @everyone when
\* the threshold is set and the magnitude reaches it
Content(guild, eq) ==
    LET content == IF guild.ping_role_id # NULL
                   THEN <<RoleMention(guild.ping_role_id)>> ELSE <<>>
    IN IF /\ guild.everyone_ping_threshold # NoThreshold
          /\ eq.mag >= guild.everyone_ping_threshold[1]
       THEN Append(content, Everyone)
       ELSE content

(* --------------------------- control of a pass ------------------------- *)
GuildRow(t) ==
    [from_guild |-> t, channel_id |-> cfg[t].channel_id,
     seismicportal_api_url |-> cfg[t].seismicportal_api_url,
     magnitude_limit |-> cfg[t].magnitude_limit,
     ping_role_id |-> cfg[t].ping_role_id,
     everyone_ping_threshold |-> cfg[t].everyone_ping_threshold]

\* find(Earthquake, where is_enabled)
EnabledGuilds ==
    SelectSeq([t \in 1..NumTenants |-> GuildRow(t)],
              LAMBDA g : cfg[g.from_guild].is_enabled)

\* Configured asking for the channel only
ConfiguredChannelOnly(guild) ==
    guild.channel_id # NULL

\* line 121, negated: the guild has a channel and a url
Configured(guild) ==
    guild.channel_id # NULL /\ guild.seismicportal_api_url # NULL

\* the guild loop from index i: skip the guilds that are not configured,
\* stop at the await of the first one that is, or end the pass
ToGuild(r, i) ==
    LET rest == {j \in i..Len(r.guilds) : Configured(r.guilds[j])}
    IN IF rest = {}
       THEN Halted("resolved")
       ELSE [Halted("find_logs") EXCEPT
                !.guilds = r.guilds, !.known = r.known,
                !.gi = CHOOSE j \in rest : \A k \in rest : j <= k]

\* the event loop from index i
ToEvent(r, i) ==
    IF i > Len(r.recent_earthquakes)
    THEN ToGuild(r, r.gi + 1)
    ELSE [r EXCEPT !.pc = "find_one", !.ei = i, !.existing_log = NoLog,
                   !.subscribedUserIds = <<>>,
                   !.geo_translate = <<>>, !.geo_response = NoGeo,
                   !.locations = <<>>, !.queried = FALSE, !.content = <<>>,
                   !.is_delivered = FALSE, !.di = 0,
                   !.posts = 0, !.rejected = 0, !.dms = <<>>, !.failed = <<>>]

Guild(p) == run[p].guilds[run[p].gi]
Eq(p) == run[p].recent_earthquakes[run[p].ei]

\* no subscription command in flight in slot c
Settled(c) ==
    cmd[c].pc \in {"idle", "admin_only", "returned", "city_not_found", "api_error",
                   "already_exists", "added", "not_found", "removed",
                   "no_subscriptions", "listed"}

(* ------------------------------ the pass ------------------------------- *)
\* The subscription rows are read by a pass in one query per event; the
\* commands that change them are taken between passes.
\* no pass in flight in slot p: none yet, or the last one resolved, or it
\* rejected with the named error
Idle(p) ==
    run[p].pc \in {"idle", "resolved", "FeedUnavailable", "GeoLookupFailed",
                   "ChannelUnreachable"}

\* StartPass with a lock that execute would hold while a pass is in flight
StartPassExclusive(p) ==
    /\ \A q \in Passes : Idle(q)
    /\ started < MaxStarts
    /\ \A c \in Commands : Settled(c)
    /\ started' = started + 1
    /\ run' = [run EXCEPT ![p] =
                 IF Len(EnabledGuilds) = 0
                 THEN Halted("resolved")
                 ELSE ToGuild([Halted("idle") EXCEPT !.guilds = EnabledGuilds,
                                                     !.known = committed], 1)]
    /\ UNCHANGED <<cmd, issued, cfg, ledger, subs, committed>>

\* the cron trigger fires: find the enabled guilds and enter the guild loop
StartPass(p) ==
    /\ Idle(p)
    /\ started < MaxStarts
    /\ \A c \in Commands : Settled(c)
    /\ started' = started + 1
    /\ run' = [run EXCEPT ![p] =
                 IF Len(EnabledGuilds) = 0
                 THEN Halted("resolved")
                 ELSE ToGuild([Halted("idle") EXCEPT !.guilds = EnabledGuilds,
                                                     !.known = committed], 1)]
    /\ UNCHANGED <<cmd, issued, cfg, ledger, subs, committed>>

\* FindLogs without the where clause: the rows of every guild
FindLogsAnyGuild(p) ==
    /\ run[p].pc = "find_logs"
    /\ run' = [run EXCEPT ![p] = [@ EXCEPT !.pc = "fetch",
                                           !.earthquakes = UNION {ledger[t] : t \in Tenants}]]
    /\ UNCHANGED <<cmd, issued, cfg, ledger, subs, started, committed>>

\* FindLogs reading the rows marked delivered only
FindLogsDeliveredOnly(p) ==
    /\ run[p].pc = "find_logs"
    /\ run' = [run EXCEPT ![p] =
                 [@ EXCEPT !.pc = "fetch",
                           !.earthquakes = {l \in ledger[Guild(p).from_guild] :
                                               l.is_delivered}]]
    /\ UNCHANGED <<cmd, issued, cfg, ledger, subs, started, committed>>

\* const earthquakes = await this.db.find(EarthquakeLogs, ...)
FindLogs(p) ==
    /\ run[p].pc = "find_logs"
    /\ run' = [run EXCEPT ![p] = [@ EXCEPT !.pc = "fetch",
                                           !.earthquakes = ledger[Guild(p).from_guild]]]
    /\ UNCHANGED <<cmd, issued, cfg, ledger, subs, started, committed>>

\* the feed answers: filter, cap, drop the known ids, enter the event loop
Fetch(p) ==
    /\ run[p].pc = "fetch"
    /\ \E features \in Feeds :
         run' = [run EXCEPT ![p] =
                   ToEvent([@ EXCEPT !.features = features,
                                     !.recent_earthquakes =
                                Select(features, Guild(p), run[p].earthquakes)], 1)]
    /\ UNCHANGED <<cmd, issued, cfg, ledger, subs, started, committed>>

\* FeedUnavailable going on to the pruning and leaving a row behind
FeedUnavailableLogged(p) ==
    /\ run[p].pc = "fetch"
    /\ ledger' = [ledger EXCEPT ![Guild(p).from_guild] =
                     Pruned(@) \cup {Log(0, FALSE, 0)}]
    /\ run' = [run EXCEPT ![p] = Halted("FeedUnavailable")]
    /\ UNCHANGED <<cmd, issued, cfg, subs, started, committed>>

\* fetch or json() throws: nothing catches it, execute() rejects
FeedUnavailable(p) ==
    /\ run[p].pc = "fetch"
    /\ run' = [run EXCEPT ![p] = Halted("FeedUnavailable")]
    /\ UNCHANGED <<cmd, issued, cfg, ledger, subs, started, committed>>

\* FindOne skipping the event whenever a row is found, delivered or not
FindOneAnyRow(p) ==
    /\ run[p].pc = "find_one"
    /\ LET rows == {l \in ledger[Guild(p).from_guild] : l.source_id = Eq(p).id}
       IN \E existing_log \in (IF rows = {} THEN {NoLog} ELSE rows) :
            run' = [run EXCEPT ![p] =
                      IF existing_log # NoLog
                      THEN ToEvent(@, @.ei + 1)
                      ELSE [@ EXCEPT !.pc = "geocode",
                                     !.existing_log = existing_log]]
    /\ UNCHANGED <<cmd, issued, cfg, ledger, subs, started, committed>>

\* findOne(EarthquakeLogs, {source_id, from_guild}): any one matching row
FindOne(p) ==
    /\ run[p].pc = "find_one"
    /\ LET rows == {l \in ledger[Guild(p).from_guild] : l.source_id = Eq(p).id}
       IN \E existing_log \in (IF rows = {} THEN {NoLog} ELSE rows) :
            run' = [run EXCEPT ![p] =
                      IF existing_log.is_delivered
                      THEN ToEvent(@, @.ei + 1)
                      ELSE [@ EXCEPT !.pc = "geocode",
                                     !.existing_log = existing_log]]
    /\ UNCHANGED <<cmd, issued, cfg, ledger, subs, started, committed>>

\* the reverse geocoder answers; the subscriptions of the guild are matched
Geocode(p) ==
    /\ run[p].pc = "geocode"
    /\ \E geo_response \in GeoResponses :
         run' = [run EXCEPT ![p] =
                   [@ EXCEPT !.pc = "channel",
                             !.geo_response = geo_response,
                             !.geo_translate = GeoTranslate(geo_response),
                             !.locations = Locations(geo_response),
                             !.queried = Len(Locations(geo_response)) > 0,
                             !.content = Content(Guild(p), Eq(p)),
                             !.subscribedUserIds =
                                 SubscribedUserIds(subs, Guild(p).from_guild,
                                                   Locations(geo_response))]]
    /\ UNCHANGED <<cmd, issued, cfg, ledger, subs, started, committed>>

\* the geocoder fetch throws: execute() rejects
GeoLookupFailed(p) ==
    /\ run[p].pc = "geocode"
    /\ run' = [run EXCEPT ![p] = Halted("GeoLookupFailed")]
    /\ UNCHANGED <<cmd, issued, cfg, ledger, subs, started, committed>>

\* guilds.fetch(...).then(channels.fetch) gives a text based channel
ChannelText(p) ==
    /\ run[p].pc = "channel"
    /\ run' = [run EXCEPT ![p] = [@ EXCEPT !.pc = "old_logs"]]
    /\ UNCHANGED <<cmd, issued, cfg, ledger, subs, started, committed>>

\* ChannelNotText leaving an undelivered row behind
ChannelNotTextLogged(p) ==
    /\ run[p].pc = "channel"
    /\ ledger' = [ledger EXCEPT ![Guild(p).from_guild] =
                     @ \cup {Log(Eq(p).id, FALSE, 0)}]
    /\ run' = [run EXCEPT ![p] = ToEvent(@, @.ei + 1)]
    /\ UNCHANGED <<cmd, issued, cfg, subs, started, committed>>

\* ChannelNotText taking the same event again within the pass
ChannelNotTextRetried(p) ==
    /\ run[p].pc = "channel"
    /\ run' = [run EXCEPT ![p] = ToEvent(@, @.ei)]
    /\ UNCHANGED <<cmd, issued, cfg, ledger, subs, started, committed>>

\* it gives null or a channel that is not text based: the if is skipped
ChannelNotText(p) ==
    /\ run[p].pc = "channel"
    /\ run' = [run EXCEPT ![p] = ToEvent(@, @.ei + 1)]
    /\ UNCHANGED <<cmd, issued, cfg, ledger, subs, started, committed>>

\* it rejects (unknown guild or channel): execute() rejects
ChannelFetchRejected(p) ==
    /\ run[p].pc = "channel"
    /\ run' = [run EXCEPT ![p] = Halted("ChannelUnreachable")]
    /\ UNCHANGED <<cmd, issued, cfg, ledger, subs, started, committed>>

\* old_logs = find(order DESC); remove old_logs.slice(50)
PruneLogs(p) ==
    /\ run[p].pc = "old_logs"
    /\ ledger' = [ledger EXCEPT ![Guild(p).from_guild] = Pruned(@)]
    /\ run' = [run EXCEPT ![p] = [@ EXCEPT !.pc = "send"]]
    /\ UNCHANGED <<cmd, issued, cfg, subs, started, committed>>

\* channel.send resolves: the .then callback starts
SendOk(p) ==
    /\ run[p].pc = "send"
    /\ run' = [run EXCEPT ![p] =
                 [@ EXCEPT !.is_delivered = TRUE, !.posts = @ + 1,
                           !.pc = IF Len(run[p].subscribedUserIds) = 0
                                  THEN "save" ELSE "dm",
                           !.di = 1]]
    /\ UNCHANGED <<cmd, issued, cfg, ledger, subs, started, committed>>

\* channel.send rejects: the .catch callback
SendFailed(p) ==
    /\ run[p].pc = "send"
    /\ run' = [run EXCEPT ![p] = [@ EXCEPT !.is_delivered = FALSE,
                                           !.rejected = @ + 1, !.pc = "save"]]
    /\ UNCHANGED <<cmd, issued, cfg, ledger, subs, started, committed>>

\* AfterDirect leaving the loop after the first user
AfterDirectOnce(r) ==
    [r EXCEPT !.dms = Append(@, r.subscribedUserIds[r.di]),
              !.di = @ + 1,
              !.pc = "save"]

\* what one turn of the direct message loop leaves
AfterDirect(r) ==
    [r EXCEPT !.dms = Append(@, r.subscribedUserIds[r.di]),
              !.di = @ + 1,
              !.pc = IF r.di + 1 > Len(r.subscribedUserIds) THEN "save" ELSE "dm"]

\* users.fetch and user.send resolve
DirectOk(p) ==
    /\ run[p].pc = "dm"
    /\ run' = [run EXCEPT ![p] = AfterDirect(@)]
    /\ UNCHANGED <<cmd, issued, cfg, ledger, subs, started, committed>>

\* AfterDirectFailed with the throw not caught in the loop: it leaves the
\* .then callback and the .catch of the send takes it
AfterDirectUncaught(r) ==
    [r EXCEPT !.dms = Append(@, r.subscribedUserIds[r.di]),
              !.failed = Append(@, r.subscribedUserIds[r.di]),
              !.is_delivered = FALSE,
              !.pc = "save"]

\* the turn of the loop whose users.fetch or user.send throws: the catch logs
\* cronjob.dm.failed with the user and the loop goes on
AfterDirectFailed(r) ==
    [AfterDirect(r) EXCEPT !.failed = Append(@, r.subscribedUserIds[r.di])]

DirectFailed(p) ==
    /\ run[p].pc = "dm"
    /\ run' = [run EXCEPT ![p] = AfterDirectFailed(@)]
    /\ UNCHANGED <<cmd, issued, cfg, ledger, subs, started, committed>>

\* the time a row saved now gets: later than every row the guild has.  Only
\* the order of a guild's rows by timestamp is read, by the pruning.
Now(logs) ==
    IF logs = {} THEN 1
    ELSE 1 + (CHOOSE n \in {l.timestamp : l \in logs} :
                 \A l \in logs : l.timestamp <= n)

\* NewLog with is_delivered left at true
NewLogDelivered(p) ==
    Log(Eq(p).id, TRUE, Now(ledger[Guild(p).from_guild]))

\* the row that await this.db.save(logs) writes
NewLog(p) ==
    Log(Eq(p).id, run[p].is_delivered, Now(ledger[Guild(p).from_guild]))

\* SaveLog writing the row only when the send resolved
SaveLogDeliveredOnly(p) ==
    /\ run[p].pc = "save"
    /\ ledger' = [ledger EXCEPT ![Guild(p).from_guild] =
                     IF run[p].is_delivered THEN @ \cup {NewLog(p)} ELSE @]
    /\ committed' = committed \cup {<<Guild(p).from_guild, Eq(p).id>>}
    /\ run' = [run EXCEPT ![p] = ToEvent(@, @.ei + 1)]
    /\ UNCHANGED <<cmd, issued, cfg, subs, started>>

SaveLog(p) ==
    /\ run[p].pc = "save"
    /\ ledger' = [ledger EXCEPT ![Guild(p).from_guild] = @ \cup {NewLog(p)}]
    /\ committed' = committed \cup {<<Guild(p).from_guild, Eq(p).id>>}
    /\ run' = [run EXCEPT ![p] = ToEvent(@, @.ei + 1)]
    /\ UNCHANGED <<cmd, issued, cfg, subs, started>>

(* ----------------------------- the settings ---------------------------- *)
\* A pass reads the Earthquake rows once, in its first await, and works on
\* that copy: a handler that runs while a pass is in flight changes nothing
\* the pass reads.  The handlers are therefore taken between passes, and
\* while a pass is still to come (MaxStarts bounds the passes).  There is one
\* channel id and one url: setting either again changes nothing.
Quiet == started < MaxStarts /\ \A p \in Passes : Idle(p)

Toggle(t) ==
    /\ Quiet
    /\ cfg' = [cfg EXCEPT ![t].is_enabled = ~ @]
    /\ UNCHANGED <<cmd, issued, ledger, subs, started, run, committed>>

SetNotificationChannel(t) ==
    /\ Quiet
    /\ cfg[t].channel_id = NULL
    /\ cfg' = [cfg EXCEPT ![t].channel_id = "channel"]
    /\ UNCHANGED <<cmd, issued, ledger, subs, started, run, committed>>

SetMagnitudeLimit(t) ==
    /\ Quiet
    /\ \E magnitude \in MagLimits \ {cfg[t].magnitude_limit} :
         cfg' = [cfg EXCEPT ![t].magnitude_limit = magnitude]
    /\ UNCHANGED <<cmd, issued, ledger, subs, started, run, committed>>

SetSeismicportalApiUrl(t) ==
    /\ Quiet
    /\ cfg[t].seismicportal_api_url = NULL
    /\ cfg' = [cfg EXCEPT ![t].seismicportal_api_url = "url"]
    /\ UNCHANGED <<cmd, issued, ledger, subs, started, run, committed>>

\* setPingRole: a role picked in the menu, or the clear button
SetPingRole(t) ==
    /\ Quiet
    /\ cfg' = [cfg EXCEPT ![t].ping_role_id = IF @ = NULL THEN "role" ELSE NULL]
    /\ UNCHANGED <<cmd, issued, ledger, subs, started, run, committed>>

\* setEveryonePingThreshold: a number submitted in the modal, or the clear
\* button
SetEveryonePingThreshold(t) ==
    /\ Quiet
    /\ \E threshold \in (EveryoneThresholds \cup {NoThreshold})
                           \ {cfg[t].everyone_ping_threshold} :
         cfg' = [cfg EXCEPT ![t].everyone_ping_threshold = threshold]
    /\ UNCHANGED <<cmd, issued, ledger, subs, started, run, committed>>

(* ---------------------- the subscription command ----------------------- *)
Canakkale == <<199, 97, 110, 97, 107, 107, 97, 108, 101>>
\* " ISTANBUL " and a text of blanks only
Padded == <<32, 73, 83, 84, 65, 78, 66, 85, 76, 32>>
Blank == <<32, 32>>

\* the city option of the commands of a run with passes
RawCities == {Istanbul, Padded, Blank}

\* any text of up to MaxTextLen of these characters, and the two examples of
\* the documentation
Alphabet == {9, 32, 65, 97, CapitalI, CapitalODiaeresis, SmallCCedilla, 201,
             CapitalIDot, SmallDotlessI, CapitalSCedilla}
Texts ==
    UNION {[1..n -> Alphabet] : n \in 1..MaxTextLen} \cup {Istanbul, Canakkale}

\* the command has replied or returned: its locals are gone
Replied(outcome) == [NoCommand EXCEPT !.pc = outcome]

\* Entered without the permission check of lines 88-99
EnteredUnchecked(subcommand, guild, user, target_user, admin, city_raw) ==
    LET city == IF city_raw # <<>> THEN normalizeText(city_raw) ELSE <<>>
        next == CASE subcommand = "add" ->
                       IF city = <<>> \/ city_raw = <<>> THEN "returned" ELSE "validate"
                  [] subcommand = "remove" ->
                       IF city = <<>> THEN "returned" ELSE "find_sub"
                  [] OTHER -> "list"
    IN IF next = "returned" THEN Replied("returned")
       ELSE [ NoCommand EXCEPT
                !.subcommand = subcommand, !.guild = guild, !.user = user,
                !.target_user = target_user, !.admin = admin,
                !.city_raw = city_raw, !.city = city, !.pc = next ]

\* lines 82-113 and 187: the options are read, the city normalized, the
\* permission checked, and the subcommand entered up to its first query
Entered(subcommand, guild, user, target_user, admin, city_raw) ==
    LET city == IF city_raw # <<>> THEN normalizeText(city_raw) ELSE <<>>
        next == CASE subcommand = "add" ->
                       IF city = <<>> \/ city_raw = <<>> THEN "returned" ELSE "validate"
                  [] subcommand = "remove" ->
                       IF city = <<>> THEN "returned" ELSE "find_sub"
                  [] OTHER -> "list"
    IN IF target_user # user /\ ~ admin THEN Replied("admin_only")
       ELSE IF next = "returned" THEN Replied("returned")
       ELSE [ NoCommand EXCEPT
                !.subcommand = subcommand, !.guild = guild, !.user = user,
                !.target_user = target_user, !.admin = admin,
                !.city_raw = city_raw, !.city = city, !.pc = next ]

InvokeWith(c, raws) ==
    /\ Settled(c)
    /\ \A p \in Passes : Idle(p)
    /\ \E subcommand \in {"add", "remove", "list"}, guild \in Tenants,
          user \in Users, target_user \in Users, admin \in BOOLEAN,
          city_raw \in raws \cup {<<>>} :
         cmd' = [cmd EXCEPT ![c] =
                   Entered(subcommand, guild, user, target_user, admin, city_raw)]
    /\ issued' = issued + 1
    /\ UNCHANGED <<cfg, ledger, subs, started, run, committed>>

\* a member runs /earthquake_notify
Invoke(c) == issued < MaxCommands /\ InvokeWith(c, RawCities)

\* the same with any text as the city
InvokeText(c) == issued < MaxTextCommands /\ InvokeWith(c, Texts)

\* Nominatim knows the text as a city
ValidCity(c) ==
    /\ cmd[c].pc = "validate"
    /\ \A p \in Passes : Idle(p)
    /\ cmd' = [cmd EXCEPT ![c].pc = "find_existing"]
    /\ UNCHANGED <<cfg, ledger, subs, started, run, committed, issued>>

\* it does not
CityNotFound(c) ==
    /\ cmd[c].pc = "validate"
    /\ \A p \in Passes : Idle(p)
    /\ cmd' = [cmd EXCEPT ![c] = Replied("city_not_found")]
    /\ UNCHANGED <<cfg, ledger, subs, started, run, committed, issued>>

\* the fetch or json() throws: caught
ApiError(c) ==
    /\ cmd[c].pc = "validate"
    /\ \A p \in Passes : Idle(p)
    /\ cmd' = [cmd EXCEPT ![c] = Replied("api_error")]
    /\ UNCHANGED <<cfg, ledger, subs, started, run, committed, issued>>

\* the rows where user, guild and city are the command's
Matching(c) ==
    {s \in subs : /\ s.user = cmd[c].target_user
                  /\ s.guild = cmd[c].guild
                  /\ s.city = cmd[c].city}

\* existing = findOne(...): a row is there, or none
FindExisting(c) ==
    /\ cmd[c].pc = "find_existing"
    /\ \A p \in Passes : Idle(p)
    /\ cmd' = [cmd EXCEPT ![c] = IF Matching(c) # {}
                                 THEN Replied("already_exists")
                                 ELSE [@ EXCEPT !.pc = "save_sub"]]
    /\ UNCHANGED <<cfg, ledger, subs, started, run, committed, issued>>

\* PrimaryGeneratedColumn
NextId(rows) ==
    IF rows = {} THEN 1
    ELSE 1 + (CHOOSE n \in {s.id : s \in rows} : \A s \in rows : s.id <= n)

\* NewSubscription keeping the text as it was given
NewSubscriptionRaw(c) ==
    [id |-> NextId(subs), guild |-> cmd[c].guild, user |-> cmd[c].target_user,
     city |-> cmd[c].city_raw, raw |-> cmd[c].city_raw]

\* subscription.user, .guild, .city
NewSubscription(c) ==
    [id |-> NextId(subs), guild |-> cmd[c].guild, user |-> cmd[c].target_user,
     city |-> cmd[c].city, raw |-> cmd[c].city_raw]

\* await this.db.save(subscription)
SaveSubscription(c) ==
    /\ cmd[c].pc = "save_sub"
    /\ \A p \in Passes : Idle(p)
    /\ subs' = subs \cup {NewSubscription(c)}
    /\ cmd' = [cmd EXCEPT ![c] = Replied("added")]
    /\ UNCHANGED <<cfg, ledger, started, run, committed, issued>>

\* remove: subscription = findOne(...)
FindSubscription(c) ==
    /\ cmd[c].pc = "find_sub"
    /\ \A p \in Passes : Idle(p)
    /\ \E subscription \in (IF Matching(c) = {} THEN {NoSub} ELSE Matching(c)) :
         cmd' = [cmd EXCEPT ![c] = IF subscription = NoSub
                                   THEN Replied("not_found")
                                   ELSE [@ EXCEPT !.found = subscription,
                                                  !.pc = "remove_sub"]]
    /\ UNCHANGED <<cfg, ledger, subs, started, run, committed, issued>>

\* await this.db.remove(subscription)
RemoveSubscription(c) ==
    /\ cmd[c].pc = "remove_sub"
    /\ \A p \in Passes : Idle(p)
    /\ subs' = subs \ {cmd[c].found}
    /\ cmd' = [cmd EXCEPT ![c] = Replied("removed")]
    /\ UNCHANGED <<cfg, ledger, started, run, committed, issued>>

\* list: the cities of the target user's rows in the guild
ListSubscriptions(c) ==
    /\ cmd[c].pc = "list"
    /\ \A p \in Passes : Idle(p)
    /\ LET subscriptions == {s \in subs : /\ s.user = cmd[c].target_user
                                          /\ s.guild = cmd[c].guild}
       IN cmd' = [cmd EXCEPT ![c] =
                    IF subscriptions = {}
                    THEN Replied("no_subscriptions")
                    ELSE [Replied("listed") EXCEPT
                            !.shown = {s.city : s \in subscriptions}]]
    /\ UNCHANGED <<cfg, ledger, subs, started, run, committed, issued>>

(* --------------------------- specifications ---------------------------- *)
CommandStep(c) ==
    \/ ValidCity(c)
    \/ CityNotFound(c)
    \/ ApiError(c)
    \/ FindExisting(c)
    \/ SaveSubscription(c)
    \/ FindSubscription(c)
    \/ RemoveSubscription(c)
    \/ ListSubscriptions(c)

PassStep(p) ==
    \/ StartPass(p)
    \/ FindLogs(p)
    \/ Fetch(p)
    \/ FeedUnavailable(p)
    \/ FindOne(p)
    \/ Geocode(p)
    \/ GeoLookupFailed(p)
    \/ ChannelText(p)
    \/ ChannelNotText(p)
    \/ ChannelFetchRejected(p)
    \/ PruneLogs(p)
    \/ SendOk(p)
    \/ SendFailed(p)
    \/ DirectOk(p)
    \/ DirectFailed(p)
    \/ SaveLog(p)

Settings(t) ==
    \/ Toggle(t)
    \/ SetNotificationChannel(t)
    \/ SetMagnitudeLimit(t)
    \/ SetSeismicportalApiUrl(t)

\* the passes follow one another
Next ==
    \/ PassStep(1)
    \/ \E t \in Tenants : Settings(t)

Spec == Init /\ [][Next]_vars

\* the cron trigger does not wait for the pass before: passes overlap
NextOverlap ==
    \/ \E p \in Passes : PassStep(p)

\* guild 1 enabled and configured with either limit, the settings left alone
InitOverlap ==
    \E magnitude \in MagLimits :
        Start([t \in Tenants |->
                 IF t = 1
                 THEN [DefaultRow EXCEPT
                          !.is_enabled = TRUE, !.channel_id = "channel",
                          !.seismicportal_api_url = "url",
                          !.magnitude_limit = magnitude]
                 ELSE DefaultRow])

SpecOverlap == InitOverlap /\ [][NextOverlap]_vars

\* subscription commands between the passes on a configured guild
NextSubscribe ==
    \/ PassStep(1)
    \/ Invoke(1)
    \/ CommandStep(1)

\* guild 1 enabled and configured, no rows saved yet
InitSubscribe ==
    /\ Start([t \in Tenants |->
                IF t = 1
                THEN [DefaultRow EXCEPT
                         !.is_enabled = TRUE, !.channel_id = "channel",
                         !.seismicportal_api_url = "url"]
                ELSE DefaultRow])
    /\ \A t \in Tenants : ledger[t] = {}

SpecSubscribe == InitSubscribe /\ [][NextSubscribe]_vars

\* one subscription command with any text as its city
NextText ==
    \/ InvokeText(1)
    \/ CommandStep(1)

SpecText == Init /\ [][NextText]_vars

\* the interactions of several members are handled together: the commands
\* interleave at their awaits
NextCommands ==
    \E c \in Commands : Invoke(c) \/ CommandStep(c)

SpecCommands == Init /\ [][NextCommands]_vars

\* passes on a configured guild whose role and threshold the settings change
NextContent ==
    \/ PassStep(1)
    \/ SetPingRole(1)
    \/ SetEveryonePingThreshold(1)

\* guild 1 enabled and configured with the lower limit, no rows saved yet
InitContent ==
    /\ Start([t \in Tenants |->
                IF t = 1
                THEN [DefaultRow EXCEPT
                         !.is_enabled = TRUE, !.channel_id = "channel",
                         !.seismicportal_api_url = "url",
                         !.magnitude_limit = 45]
                ELSE DefaultRow])
    /\ \A t \in Tenants : ledger[t] = {}

SpecContent == InitContent /\ [][NextContent]_vars

(* ------------------------- geocoder answers ---------------------------- *)
\* an answer with any of its three fields missing, or naming one of the places
AnyGeoResponses ==
    [locality : {<<>>, Kadikoy, Istanbul},
     city : {<<>>, Kadikoy, Istanbul},
     principalSubdivision : {<<>>, Kadikoy, Istanbul}]

\* the reverse geocoder answers with any of them
GeocodeAny(p) ==
    /\ run[p].pc = "geocode"
    /\ \E geo_response \in AnyGeoResponses :
         run' = [run EXCEPT ![p] =
                   [@ EXCEPT !.pc = "channel",
                             !.geo_response = geo_response,
                             !.geo_translate = GeoTranslate(geo_response),
                             !.locations = Locations(geo_response),
                             !.queried = Len(Locations(geo_response)) > 0,
                             !.content = Content(Guild(p), Eq(p)),
                             !.subscribedUserIds =
                                 SubscribedUserIds(subs, Guild(p).from_guild,
                                                   Locations(geo_response))]]
    /\ UNCHANGED <<cmd, issued, cfg, ledger, subs, started, committed>>

\* the pass with such answers
NextGeo ==
    \/ StartPass(1)
    \/ FindLogs(1)
    \/ Fetch(1)
    \/ FeedUnavailable(1)
    \/ FindOne(1)
    \/ GeocodeAny(1)
    \/ GeoLookupFailed(1)
    \/ ChannelText(1)
    \/ ChannelNotText(1)
    \/ ChannelFetchRejected(1)
    \/ PruneLogs(1)
    \/ SendOk(1)
    \/ SendFailed(1)
    \/ DirectOk(1)
    \/ DirectFailed(1)
    \/ SaveLog(1)

SpecGeo == InitSubscribe /\ [][NextGeo]_vars

(* ---------------------------- long feeds ------------------------------- *)
\* a feed of n events with the ids 101, 102, ... in this order; the events at
\* the positions in low have magnitude 4.9, the others 5.0
LongFeed(n, low) ==
    [i \in 1..n |-> [id |-> 100 + i, mag |-> IF i \in low THEN 49 ELSE 50]]

\* feeds of 25 events and more, with and without a weaker second event
LongFeeds ==
    {LongFeed(n, low) : n \in MaxRecent..LongFeedLen, low \in {{}, {2}}}

\* the rows of a guild that was sent the first k events of such a feed
SeenLedger(k) == {Log(100 + i, TRUE, i) : i \in 1..k}

\* the feed answers with a long feed
FetchLong(p) ==
    /\ run[p].pc = "fetch"
    /\ \E features \in LongFeeds :
         run' = [run EXCEPT ![p] =
                   ToEvent([@ EXCEPT !.features = features,
                                     !.recent_earthquakes =
                                Select(features, Guild(p), run[p].earthquakes)], 1)]
    /\ UNCHANGED <<cmd, issued, cfg, ledger, subs, started, committed>>

\* guild 1 enabled and configured with either limit; it has no row, or the
\* rows of the first 24 or 25 events
InitFilter ==
    /\ \E magnitude \in MagLimits :
         cfg = [t \in Tenants |->
                  IF t = 1
                  THEN [DefaultRow EXCEPT
                           !.is_enabled = TRUE, !.channel_id = "channel",
                           !.seismicportal_api_url = "url",
                           !.magnitude_limit = magnitude]
                  ELSE DefaultRow]
    /\ \E k \in {0, MaxRecent - 1, MaxRecent} :
         ledger = [t \in Tenants |-> IF t = 1 THEN SeenLedger(k) ELSE {}]
    /\ subs = InitSubs
    /\ started = 0
    /\ run = [p \in Passes |-> Halted("idle")]
    /\ committed = Keys(ledger)
    /\ cmd = [c \in Commands |-> NoCommand]
    /\ issued = 0

\* passes over long feeds in which every call succeeds
NextFilter ==
    \/ StartPass(1)
    \/ FindLogs(1)
    \/ FetchLong(1)
    \/ FindOne(1)
    \/ Geocode(1)
    \/ ChannelText(1)
    \/ PruneLogs(1)
    \/ SendOk(1)
    \/ DirectOk(1)
    \/ SaveLog(1)

SpecFilter == InitFilter /\ [][NextFilter]_vars

(* ------------------------- passes without end -------------------------- *)
\* the cron trigger goes on firing after the firings counted by started:
\* the pass is the one StartPass begins, the count stays at MaxStarts
StartPassAgain(p) ==
    /\ Idle(p)
    /\ started = MaxStarts
    /\ \A c \in Commands : Settled(c)
    /\ run' = [run EXCEPT ![p] =
                 IF Len(EnabledGuilds) = 0
                 THEN Halted("resolved")
                 ELSE ToGuild([Halted("idle") EXCEPT !.guilds = EnabledGuilds,
                                                     !.known = committed], 1)]
    /\ UNCHANGED <<cmd, issued, cfg, ledger, subs, started, committed>>

\* the event id is among the first MaxRecent events of the feed that reach
\* the guild's magnitude limit
Carries(features, guild, id) ==
    LET recent_earthquakes ==
            Slice(SelectSeq(features, LAMBDA eq : eq.mag >= guild.magnitude_limit),
                  MaxRecent)
    IN \E i \in 1..Len(recent_earthquakes) : recent_earthquakes[i].id = id

\* every guild enabled and configured, each with either limit; the settings
\* are left alone
InitLive ==
    \E limits \in [Tenants -> MagLimits] :
        Start([t \in Tenants |->
                 [DefaultRow EXCEPT
                     !.is_enabled = TRUE, !.channel_id = "channel",
                     !.seismicportal_api_url = "url",
                     !.magnitude_limit = limits[t]]])

NextLive ==
    \/ PassStep(1)
    \/ StartPassAgain(1)

\* The trigger fires on its schedule and every call a pass awaits returns or
\* fails: a step is taken whenever one can be.  Which way a call goes is left
\* open.
SpecLive == InitLive /\ [][NextLive]_vars /\ WF_vars(NextLive)

(* ------------------------------ claims --------------------------------- *)
InLoop(p) ==
    run[p].pc \in {"find_one", "geocode", "channel", "old_logs", "send", "dm", "save"}

\* past the findOne check: the event is geocoded, sent, recorded
Dispatching(p) ==
    run[p].pc \in {"geocode", "channel", "old_logs", "send", "dm", "save"}

\* pass p takes the step
Moves(p) == run'[p] # run[p]

SourceIds(logs) == {l.source_id : l \in logs}

Key(p) == <<Guild(p).from_guild, Eq(p).id>>

\* the step writes exactly one row, for the event of pass p, with the flag
\* given, and touches no other guild's rows
WritesOne(p, flag) ==
    /\ \E l \in ledger'[Guild(p).from_guild] :
         /\ l \notin ledger[Guild(p).from_guild]
         /\ ledger'[Guild(p).from_guild] = ledger[Guild(p).from_guild] \cup {l}
         /\ l.source_id = Eq(p).id
         /\ l.is_delivered = flag
    /\ \A t \in Tenants \ {Guild(p).from_guild} : ledger'[t] = ledger[t]

\* C1 as stated: once a row for (guild, source id) has been saved, no pass
\* that starts later attempts a channel send for that source id in that guild.
C1_NeverReconsidered ==
    \A p \in Passes :
        run[p].posts + run[p].rejected > 0 => Key(p) \notin run[p].known

\* C1 as amended: a row saved for (guild, source id) before a pass started and
\* still among the guild's rows when that pass reads them keeps the event out
\* of that pass, delivered or not: the pass does not geocode, send or record it.
C1_NotReconsideredWhileRecorded ==
    \A p \in Passes :
        Dispatching(p) =>
            ~ (Key(p) \in run[p].known /\ Eq(p).id \in SourceIds(run[p].earthquakes))

\* a later pass is in its event loop, and the feed it got holds an event whose
\* undelivered row, saved before the pass started, was among the rows read
C1_Witness ==
    \E p \in Passes :
        /\ InLoop(p)
        /\ \E i \in 1..Len(run[p].features) :
             /\ <<Guild(p).from_guild, run[p].features[i].id>> \in run[p].known
             /\ \E e \in run[p].earthquakes \ FullLedger :
                  e.source_id = run[p].features[i].id /\ ~ e.is_delivered

\* C2: no event the event loop of a pass runs over has its source id among the
\* rows the pass read for the guild before the fetch, whatever their flag.
C2_LedgerIdsExcluded ==
    \A p \in Passes :
        InLoop(p) =>
            \A i \in 1..Len(run[p].recent_earthquakes) :
                \A e \in run[p].earthquakes :
                    e.source_id # run[p].recent_earthquakes[i].id

\* the feed held an event over the limit whose id was among the rows read
C2_Witness ==
    \E p \in Passes :
        /\ InLoop(p)
        /\ \E i \in 1..Len(run[p].features) :
             /\ run[p].features[i].mag >= Guild(p).magnitude_limit
             /\ run[p].features[i].id \in SourceIds(run[p].earthquakes)

\* C3: every event the event loop of a pass runs over has a magnitude of at
\* least the limit of the guild's row: an event below it is never dispatched.
C3_BelowLimitNeverDispatched ==
    \A p \in Passes :
        InLoop(p) =>
            \A i \in 1..Len(run[p].recent_earthquakes) :
                run[p].recent_earthquakes[i].mag >= Guild(p).magnitude_limit

\* the feed held an event below the limit and the loop runs over another one
C3_Witness ==
    \E p \in Passes :
        /\ Dispatching(p)
        /\ \E i \in 1..Len(run[p].features) :
             run[p].features[i].mag < Guild(p).magnitude_limit

\* C4 as stated: after a pass that completed, no guild has more than 50 rows.
C4_AtMostKeepAfterPass ==
    \A p \in Passes :
        run[p].pc = "resolved" =>
            \A t \in Tenants : Cardinality(ledger[t]) <= KeepLogs

\* C5 as stated: a guild never has two rows with the same source id.
C5_OneRecordPerKey ==
    \A t \in Tenants :
        \A l, m \in ledger[t] : l.source_id = m.source_id => l = m

\* C6: when the channel took the message, the save that ends the event's turn
\* comes after exactly one message and one direct message attempt per matched
\* subscriber, and writes exactly one row, for that event, marked delivered.
C6_DeliveredOnce ==
    [][\A p \in Passes :
          run[p].pc = "save" /\ run[p].posts > 0 /\ Moves(p) =>
              /\ run[p].posts = 1
              /\ run[p].rejected = 0
              /\ run[p].dms = run[p].subscribedUserIds
              /\ WritesOne(p, TRUE)]_vars

\* the message is out, two subscribers matched and both were tried
C6_Witness ==
    \E p \in Passes :
        /\ run[p].pc = "save"
        /\ run[p].posts = 1
        /\ Len(run[p].subscribedUserIds) = 2
        /\ run[p].dms = run[p].subscribedUserIds

\* C7: when the channel send failed, the save that ends the event's turn
\* comes after no direct message attempt and writes exactly one row, for that
\* event, marked undelivered.
C7_SendFailureRecorded ==
    [][\A p \in Passes :
          run[p].pc = "save" /\ run[p].rejected > 0 /\ Moves(p) =>
              /\ run[p].posts = 0
              /\ run[p].rejected = 1
              /\ run[p].dms = <<>>
              /\ WritesOne(p, FALSE)]_vars

\* the send failed for an event with matched subscribers
C7_Witness ==
    \E p \in Passes :
        /\ run[p].pc = "save"
        /\ run[p].rejected = 1
        /\ Len(run[p].subscribedUserIds) > 0

\* C8: when the channel does not resolve to a text based channel, the step
\* that gives the event up changes no row of any guild, no message and no
\* direct message was sent for the event, and an event the guild had no row
\* for is selected again from a feed that returns it.
C8_UnreachableChannelLeavesNoTrace ==
    [][\A p \in Passes :
          run[p].pc = "channel" /\ run'[p].pc \notin {"channel", "old_logs"} =>
              /\ ledger' = ledger
              /\ committed' = committed
              /\ run[p].posts = 0 /\ run[p].rejected = 0 /\ run[p].dms = <<>>
              /\ Eq(p).id \notin SourceIds(ledger[Guild(p).from_guild]) =>
                    Select(<<Eq(p)>>, Guild(p), ledger'[Guild(p).from_guild]) = <<Eq(p)>>]_vars

\* a pass is at its second event and the guild has no row for the first: the
\* first was given up at the channel
C8_Witness ==
    \E p \in Passes :
        /\ run[p].pc = "find_one"
        /\ run[p].ei = 2
        /\ run[p].recent_earthquakes[1].id \notin SourceIds(ledger[Guild(p).from_guild])

\* C9 as stated: a pass ends only when every enabled and configured guild of
\* it has been processed.
C9_EveryConfiguredGuildProcessed ==
    [][\A p \in Passes :
          ~ Idle(p) /\ run'[p].pc \in {"resolved", "FeedUnavailable",
                                        "GeoLookupFailed", "ChannelUnreachable"} =>
              \A j \in (run[p].gi + 1)..Len(run[p].guilds) :
                  ~ Configured(run[p].guilds[j])]_vars

\* C10: the step on which the feed fetch fails changes no row, no subscription
\* and no setting, and nothing was sent for the guild in the pass before it.
C10_FeedFailureMutatesNothing ==
    [][\A p \in Passes :
          run[p].pc = "fetch" /\ run'[p].pc = "FeedUnavailable" =>
              /\ ledger' = ledger
              /\ committed' = committed
              /\ subs' = subs
              /\ cfg' = cfg
              /\ run[p].posts = 0 /\ run[p].rejected = 0 /\ run[p].dms = <<>>]_vars

\* a pass ended on a failed feed fetch while the guild had rows
C10_Witness ==
    \E p \in Passes :
        /\ run[p].pc = "FeedUnavailable"
        /\ \E t \in Tenants : cfg[t].is_enabled /\ ledger[t] # {}

\* C11 as stated: when the reverse geocode lookup fails, by throwing or by
\* naming no place, the event goes on to the channel with the location shown
\* as Unknown and with no user to notify.
C11_GeoFailureStillDelivered ==
    [][\A p \in Passes :
          /\ run[p].pc = "geocode"
          /\ Moves(p)
          /\ (run'[p].pc = "GeoLookupFailed" \/ run'[p].locations = <<>>)
          => /\ run'[p].pc = "channel"
             /\ Display(run'[p].geo_translate) = Unknown
             /\ run'[p].subscribedUserIds = <<>>]_vars

\* C12: when a direct message failed after the channel took the message, every
\* matched subscriber was still tried, in order, the row is still marked
\* delivered, and the save writes exactly that one row.
C12_DirectFailureIsolated ==
    [][\A p \in Passes :
          /\ (run[p].pc = "dm" /\ Moves(p) =>
                 /\ run'[p].is_delivered
                 /\ run'[p].pc = IF run[p].di < Len(run[p].subscribedUserIds)
                                 THEN "dm" ELSE "save")
          /\ (run[p].pc = "save" /\ run[p].failed # <<>> /\ Moves(p) =>
                 /\ run[p].posts = 1
                 /\ run[p].dms = run[p].subscribedUserIds
                 /\ WritesOne(p, TRUE))]_vars

\* the direct message to the first of two matched subscribers failed and the
\* second was tried all the same
C12_Witness ==
    \E p \in Passes :
        /\ run[p].pc = "save"
        /\ Len(run[p].subscribedUserIds) = 2
        /\ run[p].failed = <<run[p].subscribedUserIds[1]>>
        /\ run[p].dms = run[p].subscribedUserIds

\* the channel took the message of pass p for its event, the row is not saved yet
Sent(p) == run[p].pc \in {"dm", "save"} /\ run[p].posts = 1

\* C13: nothing excludes overlapping passes.  The trigger can start a pass
\* while another one is in flight, and when two passes have both sent the same
\* event to the same guild's channel, each had read the guild's rows while
\* they held no row for the event.
C13_OverlapNotExcluded ==
    /\ \A p \in Passes : Idle(p) /\ started < MaxStarts => ENABLED StartPass(p)
    /\ \A p, q \in Passes :
          p # q /\ Sent(p) /\ Sent(q) /\ Key(p) = Key(q) =>
              /\ Eq(p).id \notin SourceIds(run[p].earthquakes)
              /\ Eq(q).id \notin SourceIds(run[q].earthquakes)

\* two passes have both sent the same event to the same guild's channel, both
\* having read the rows before either saved one for it
C13_Witness ==
    \E p, q \in Passes :
        /\ p # q
        /\ Sent(p) /\ Sent(q)
        /\ Key(p) = Key(q)
        /\ Eq(p).id \notin SourceIds(ledger[Guild(p).from_guild])

\* the events of the feed of pass p that pass the guild's limit, capped
Passing(p) ==
    Slice(SelectSeq(run[p].features,
                    LAMBDA eq : eq.mag >= Guild(p).magnitude_limit), MaxRecent)

\* C14: rows and subscriptions are the guild's own.  An event that passes the
\* limit and for which no row of this guild was ever saved is dispatched for
\* this guild, whatever rows other guilds have; a step of a pass changes the
\* rows of no guild but the one it works on; and the users matched and
\* notified for an event all have a subscription in that guild.
C14_TenantScoped ==
    [][\A p \in Passes :
          /\ (InLoop(p) =>
                 \A i \in 1..Len(Passing(p)) :
                     <<Guild(p).from_guild, Passing(p)[i].id>> \notin run[p].known =>
                         Passing(p)[i] \in Range(run[p].recent_earthquakes))
          /\ (~ Idle(p) /\ Moves(p) =>
                 \A t \in Tenants \ {Guild(p).from_guild} : ledger'[t] = ledger[t])
          /\ (InLoop(p) =>
                 /\ Range(run[p].dms) \subseteq Range(run[p].subscribedUserIds)
                 /\ \A u \in Range(run[p].subscribedUserIds) :
                        \E sub \in subs : sub.guild = Guild(p).from_guild /\ sub.user = u)]_vars

\* guild 2 gets an event that guild 1 has a row for, and notifies its own
\* subscriber only, while guild 1 has another subscriber of the same city
C14_Witness ==
    \E p \in Passes :
        /\ run[p].pc = "save"
        /\ Guild(p).from_guild = 2
        /\ Eq(p).id \in SourceIds(ledger[1]) \ SourceIds(ledger[2])
        /\ run[p].dms = <<2>>
        /\ \E sub \in subs : sub.guild = 1 /\ sub.user = 1 /\ sub.city \in Range(run[p].locations)

\* s is t with some elements left out, the order kept
RECURSIVE IsSubSeq(_, _)
IsSubSeq(s, t) ==
    IF s = <<>> THEN TRUE
    ELSE IF t = <<>> THEN FALSE
    ELSE IF Head(s) = Head(t) THEN IsSubSeq(Tail(s), Tail(t))
    ELSE IsSubSeq(s, Tail(t))

\* C15: the events of a guild are taken in the order of the feed, one after
\* the other, and the turn of an event a send was attempted for ends with the
\* save of its row: the next event is not looked at before.
C15_FeedOrderSaveBeforeNext ==
    [][\A p \in Passes :
          InLoop(p) /\ Moves(p) =>
              /\ IsSubSeq(run[p].recent_earthquakes, run[p].features)
              /\ (run'[p].pc \in {"find_one", "geocode", "channel", "old_logs",
                                   "send", "dm", "save"}
                     /\ run'[p].gi = run[p].gi =>
                        /\ run'[p].recent_earthquakes = run[p].recent_earthquakes
                        /\ run'[p].ei \in {run[p].ei, run[p].ei + 1})
              /\ ((run[p].posts + run[p].rejected > 0
                     /\ <<run'[p].pc, run'[p].gi, run'[p].ei>> \notin
                            {<<"dm", run[p].gi, run[p].ei>>,
                             <<"save", run[p].gi, run[p].ei>>}) =>
                        /\ run[p].pc = "save"
                        /\ WritesOne(p, run[p].is_delivered))]_vars

\* a pass is at the second of two different events of the feed and the guild
\* has the row of the first
C15_Witness ==
    \E p \in Passes :
        /\ run[p].pc = "geocode"
        /\ run[p].ei = 2
        /\ run[p].features = run[p].recent_earthquakes
        /\ run[p].recent_earthquakes[1].id # run[p].recent_earthquakes[2].id
        /\ run[p].recent_earthquakes[1].id \in SourceIds(ledger[Guild(p).from_guild])

\* C16: the steps of a dispatched event come in this order.  Up to the
\* channel being resolved nothing is sent or written; then the guild's rows are
\* cut down to the 50 most recent; then the send is attempted; direct messages
\* are attempted only after a send that succeeded; and the row is saved last,
\* once, with the outcome of the send.
C16_StepOrder ==
    [][\A p \in Passes :
          Moves(p) =>
              LET g == Guild(p).from_guild
                  r == run[p]
              IN /\ (r.pc = "channel" =>
                        /\ ledger' = ledger
                        /\ r.posts = 0 /\ r.rejected = 0 /\ r.dms = <<>>
                        /\ run'[p].pc \notin {"send", "dm", "save"})
                 /\ (r.pc = "old_logs" =>
                        /\ r.posts = 0 /\ r.rejected = 0 /\ r.dms = <<>>
                        /\ run'[p].pc = "send"
                        /\ ledger'[g] \subseteq ledger[g]
                        /\ Cardinality(ledger'[g]) =
                              IF Cardinality(ledger[g]) > KeepLogs
                              THEN KeepLogs ELSE Cardinality(ledger[g])
                        /\ \A old \in ledger[g] \ ledger'[g] :
                              \A l \in ledger'[g] : old.timestamp < l.timestamp)
                 /\ (r.pc = "send" =>
                        /\ ledger' = ledger
                        /\ r.posts = 0 /\ r.rejected = 0 /\ r.dms = <<>>
                        /\ run'[p].pc \in {"dm", "save"}
                        /\ run'[p].posts + run'[p].rejected = 1
                        /\ (run'[p].pc = "dm" => run'[p].posts = 1))
                 /\ (r.pc = "dm" =>
                        /\ ledger' = ledger
                        /\ r.posts = 1 /\ r.rejected = 0
                        /\ run'[p].pc \in {"dm", "save"})
                 /\ (r.pc = "save" =>
                        /\ r.posts + r.rejected = 1
                        /\ (r.rejected = 1 => r.dms = <<>>)
                        /\ WritesOne(p, r.posts = 1)
                        /\ <<run'[p].pc, run'[p].gi, run'[p].ei>> # <<"save", r.gi, r.ei>>)]_vars

\* the pruning has removed the oldest row of a guild that had 51, and the send
\* of the event is next
C16_Witness ==
    \E p \in Passes :
        /\ run[p].pc = "send"
        /\ Cardinality(ledger[Guild(p).from_guild]) = KeepLogs
        /\ \E old \in FullLedger :
              ledger[Guild(p).from_guild] \cap FullLedger = FullLedger \ {old}

\* C17: the users matched for an event are exactly the users with a
\* subscription row of the same guild whose city is one of the normalized names
\* of the geocoder's answer, each of them once; with no name the subscriptions
\* are not queried and nobody is matched; and the direct messages attempted
\* after a send go to the matched users, one attempt each.
C17_FanOutExact ==
    [][\A p \in Passes :
          /\ (run[p].pc = "geocode" /\ run'[p].pc = "channel" =>
                 LET matched == run'[p].subscribedUserIds
                     locations == run'[p].locations
                 IN /\ Range(matched) =
                          {sub.user : sub \in
                              {s \in subs : /\ s.guild = Guild(p).from_guild
                                            /\ \E i \in 1..Len(locations) :
                                                  locations[i] = s.city}}
                    /\ \A i, j \in 1..Len(matched) : matched[i] = matched[j] => i = j
                    /\ run'[p].queried = (locations # <<>>)
                    /\ (locations = <<>> => matched = <<>>))
          /\ (run[p].pc = "save" /\ run[p].posts = 1 /\ Moves(p) =>
                 run[p].dms = run[p].subscribedUserIds)]_vars

\* the message is out and two users were tried once each, one of them with two
\* cities among the names of the answer
C17_Witness ==
    \E p \in Passes :
        /\ run[p].pc = "save"
        /\ run[p].dms = <<1, 2>>
        /\ \E u \in Users :
              Cardinality({s \in subs : /\ s.guild = Guild(p).from_guild
                                        /\ s.user = u
                                        /\ s.city \in Range(run[p].locations)}) = 2

\* C18: every subscription row is saved with the normalized form of the text
\* its subscriber gave, and when the geocoder's answer has a name whose normalized
\* form is that of the text, the subscriber is among the users matched for
\* the event in the row's guild.
C18_MatchInsensitive ==
    [][/\ \A s \in subs' \ subs : s.city = normalizeText(s.raw)
       /\ \A p \in Passes :
             run[p].pc = "geocode" /\ run'[p].pc = "channel" =>
                 LET geo == run'[p].geo_response
                 IN \A s \in subs :
                        \A name \in {geo.locality, geo.city, geo.principalSubdivision} :
                            /\ s.guild = Guild(p).from_guild
                            /\ name # <<>>
                            /\ normalizeText(name) = normalizeText(s.raw)
                            => s.user \in Range(run'[p].subscribedUserIds)]_vars

\* a user whose only subscription in the guild was added as " ISTANBUL " is
\* matched for an event the geocoder places in Istanbul, written with its
\* dotted capital
C18_Witness ==
    \E p \in Passes :
        /\ run[p].pc = "channel"
        /\ run[p].geo_response.city = Istanbul
        /\ \E s \in subs :
              /\ s.raw = Padded
              /\ s.guild = Guild(p).from_guild
              /\ s.user \in Range(run[p].subscribedUserIds)
              /\ \A o \in subs : o.guild = s.guild /\ o.user = s.user => o = s

\* C19: normalizing a normalized text changes nothing, for the city of every
\* command and of every subscription row.
C19_NormalizeIdempotent ==
    /\ \A c \in Commands :
          /\ cmd[c].city_raw # <<>> => cmd[c].city = normalizeText(cmd[c].city_raw)
          /\ normalizeText(cmd[c].city) = cmd[c].city
    /\ \A s \in subs : normalizeText(s.city) = s.city

\* a command whose city was given with a blank, a dotted capital I and a
\* capital S with cedilla
C19_Witness ==
    \E c \in Commands :
        /\ cmd[c].city_raw = <<32, CapitalIDot, CapitalSCedilla>>
        /\ cmd[c].city = <<SmallI, SmallS>>

\* the characters the replacements name
Mapped ==
    {CapitalIDot, CapitalI, SmallDotlessI, CapitalSCedilla, SmallSCedilla,
     CapitalGBreve, SmallGBreve, CapitalUDiaeresis, SmallUDiaeresis,
     CapitalODiaeresis, SmallODiaeresis, CapitalCCedilla, SmallCCedilla}

\* what the claim says a character that is not white space becomes
Becomes(ch) ==
    CASE ch \in {CapitalIDot, CapitalI, SmallDotlessI} -> 105
      [] ch \in {CapitalSCedilla, SmallSCedilla} -> 115
      [] ch \in {CapitalGBreve, SmallGBreve} -> 103
      [] ch \in {CapitalUDiaeresis, SmallUDiaeresis} -> 117
      [] ch \in {CapitalODiaeresis, SmallODiaeresis} -> 111
      [] ch \in {CapitalCCedilla, SmallCCedilla} -> 99
      [] ch \in 65..90 -> ch + 32
      [] ch = 201 -> 233
      [] OTHER -> ch

\* C20: the normalized city of a command holds none of the characters the
\* replacements name, no capital letter, and no white space at either end;
\* without white space in the text given, it is that text with each character
\* mapped or lower cased; no text gives the empty text; and the two examples
\* of the documentation come out as documented.
C20_NormalizeMapping ==
    /\ normalizeText(<<>>) = <<>>
    /\ \A c \in Commands :
          LET given == cmd[c].city_raw
              city == cmd[c].city
          IN /\ \A i \in 1..Len(city) :
                    /\ city[i] \notin Mapped
                    /\ ToLowerCase(<<city[i]>>) = <<city[i]>>
             /\ city # <<>> =>
                    city[1] \notin WhiteSpace /\ city[Len(city)] \notin WhiteSpace
             /\ (\A i \in 1..Len(given) : given[i] \notin WhiteSpace) =>
                    /\ Len(city) = Len(given)
                    /\ \A i \in 1..Len(given) : city[i] = Becomes(given[i])
             /\ (given = <<>> \/ \A i \in 1..Len(given) : given[i] \in WhiteSpace) =>
                    city = <<>>
             /\ given = Istanbul => city = <<105, 115, 116, 97, 110, 98, 117, 108>>
             /\ given = Canakkale => city = <<99, 97, 110, 97, 107, 107, 97, 108, 101>>

\* a command whose city was given as the second example of the documentation
C20_Witness ==
    \E c \in Commands :
        /\ cmd[c].city_raw = Canakkale
        /\ cmd[c].city = <<99, 97, 110, 97, 107, 107, 97, 108, 101>>

\* C21 as stated: no two subscription rows have the same guild, user and
\* normalized city, whatever add and remove commands ran and however they
\* interleaved.
C21_NoDuplicateKey ==
    \A s, t \in subs :
        s.guild = t.guild /\ s.user = t.user /\ s.city = t.city => s = t

\* C22: a command by a member who is not an administrator and names another
\* user is answered with admin_only on entry, before any query.  The step that
\* rejects changes no subscription row; every command that is at a query or
\* a write is by its target user or by an administrator; and a row is added
\* or removed only by the step of such a command.
C22_NonAdminRejected ==
    [][/\ \A subcommand \in {"add", "remove", "list"}, guild \in Tenants,
             user \in Users, target_user \in Users, city_raw \in RawCities \cup {<<>>} :
             user # target_user =>
                 Entered(subcommand, guild, user, target_user, FALSE, city_raw)
                     = Replied("admin_only")
       /\ \A c \in Commands :
             /\ (cmd'[c].pc = "admin_only" /\ cmd'[c] # cmd[c] => subs' = subs)
             /\ (~ Settled(c) => cmd[c].user = cmd[c].target_user \/ cmd[c].admin)
       /\ (subs' # subs =>
             \E c \in Commands :
                 /\ cmd[c].pc \in {"save_sub", "remove_sub"}
                 /\ cmd'[c] # cmd[c]
                 /\ (cmd[c].user = cmd[c].target_user \/ cmd[c].admin))]_vars

\* a command was rejected with admin_only while another member's add is about
\* to save its row, and the rows are those present at start
C22_Witness ==
    \E c, d \in Commands :
        /\ cmd[c].pc = "admin_only"
        /\ cmd[d].pc = "save_sub"
        /\ subs = InitSubs

\* the Earthquake row of guild t is enabled and has a channel and a url
Ready(t) ==
    /\ cfg[t].is_enabled
    /\ cfg[t].channel_id # NULL
    /\ cfg[t].seismicportal_api_url # NULL

\* C23: a pass works only on guilds that are enabled and have a channel and a
\* url.  Every fetch, message and row it makes is for such a guild; the rows
\* of any other guild are left alone; and the pass goes from its start, and
\* from the last event of a guild, to the next such guild in order, or ends
\* when there is none: a guild that is disabled or lacks its channel or url
\* is passed over without an error.
C23_OnlyEnabledConfigured ==
    [][/\ \A t \in Tenants : ledger'[t] # ledger[t] => Ready(t)
       /\ \A p \in Passes :
             /\ (~ Idle(p) => Ready(Guild(p).from_guild))
             /\ (Idle(p) /\ Moves(p) =>
                    IF \A t \in Tenants : ~ Ready(t)
                    THEN run'[p].pc = "resolved"
                    ELSE /\ run'[p].pc = "find_logs"
                         /\ Ready(run'[p].guilds[run'[p].gi].from_guild)
                         /\ \A t \in 1..(run'[p].guilds[run'[p].gi].from_guild - 1) :
                                ~ Ready(t))
             /\ (~ Idle(p) /\ run'[p].pc = "resolved" =>
                    \A t \in Tenants : t > Guild(p).from_guild => ~ Ready(t))
             /\ (~ Idle(p) /\ ~ Idle(p)' /\ run'[p].gi # run[p].gi =>
                    /\ run'[p].pc = "find_logs"
                    /\ run'[p].guilds = run[p].guilds
                    /\ run'[p].guilds[run'[p].gi].from_guild > Guild(p).from_guild
                    /\ Ready(run'[p].guilds[run'[p].gi].from_guild)
                    /\ \A t \in (Guild(p).from_guild + 1)
                                  ..(run'[p].guilds[run'[p].gi].from_guild - 1) :
                           ~ Ready(t))]_vars

\* a pass is about to save a row for guild 2, having passed over guild 1,
\* which is enabled and has its channel but no url
C23_Witness ==
    \E p \in Passes :
        /\ run[p].pc = "save"
        /\ Guild(p).from_guild = 2
        /\ cfg[1].is_enabled
        /\ cfg[1].channel_id # NULL
        /\ cfg[1].seismicportal_api_url = NULL
        /\ ledger[1] = {} /\ ledger[2] = {}

\* the events of features that pass the limit of guild, in feed order
OverLimit(features, guild) ==
    SelectSeq(features, LAMBDA eq : eq.mag >= guild.magnitude_limit)

\* selected is what the claim says of features: of the first 25 events that
\* pass the limit, in feed order, those with no row among earthquakes, so at
\* most 25 of them and none from beyond the 25th
CappedThenDeduplicated(selected, features, guild, earthquakes) ==
    /\ Len(selected) <= 25
    /\ selected = SelectSeq(Slice(OverLimit(features, guild), 25),
                            LAMBDA eq : eq.id \notin SourceIds(earthquakes))
    /\ \A i \in 26..Len(OverLimit(features, guild)) :
          OverLimit(features, guild)[i] \notin Range(selected)

\* C24: the events a pass dispatches for a guild are, of the first 25 events
\* of the feed that pass the limit, those the guild had no row for when the
\* pass read its rows: at most 25, in feed order, and never an event from
\* beyond the 25th, even when the rows cover all of the first 25.
C24_CapThenDedup ==
    \A p \in Passes :
        /\ run[p].pc = "fetch" =>
               \A features \in LongFeeds :
                   CappedThenDeduplicated(
                       Select(features, Guild(p), run[p].earthquakes),
                       features, Guild(p), run[p].earthquakes)
        /\ InLoop(p) =>
               /\ run[p].ei <= 25
               /\ CappedThenDeduplicated(run[p].recent_earthquakes, run[p].features,
                                          Guild(p), run[p].earthquakes)

\* the feed held 27 events over the limit and the guild had the rows of the
\* first 24: the pass dispatches the 25th alone, and the 26th and 27th, which
\* the guild has no row for, are left out
C24_Witness ==
    \E p \in Passes :
        /\ run[p].pc = "send"
        /\ Len(OverLimit(run[p].features, Guild(p))) = 27
        /\ SourceIds(run[p].earthquakes) = {100 + i : i \in 1..24}
        /\ run[p].recent_earthquakes = <<run[p].features[25]>>
        /\ run[p].features[26].id \notin SourceIds(ledger[Guild(p).from_guild])

\* C25: once the content of the message for an event is made, it holds the
\* mention of the guild's role exactly when the guild has a role to ping, and
\* the @everyone marker exactly when the guild has a threshold for it and the
\* magnitude of the event is at least that threshold, each whatever the
\* other; there is nothing else in it.
C25_ContentMentions ==
    \A p \in Passes :
        run[p].pc \in {"channel", "old_logs", "send", "dm", "save"} =>
            LET guild == Guild(p)
                role == guild.ping_role_id # NULL
                everyone == /\ guild.everyone_ping_threshold # NoThreshold
                            /\ Eq(p).mag >= guild.everyone_ping_threshold[1]
            IN /\ role <=> RoleMention(guild.ping_role_id) \in Range(run[p].content)
               /\ everyone <=> Everyone \in Range(run[p].content)
               /\ Len(run[p].content) = (IF role THEN 1 ELSE 0) + (IF everyone THEN 1 ELSE 0)
               /\ (role /\ everyone =>
                      run[p].content = <<RoleMention(guild.ping_role_id), Everyone>>)

\* the message about to be sent for an event of magnitude 5.0 holds the
\* @everyone marker alone: the threshold is 5.0 and no role is set
C25_Witness ==
    \E p \in Passes :
        /\ run[p].pc = "send"
        /\ Guild(p).ping_role_id = NULL
        /\ Guild(p).everyone_ping_threshold = <<50>>
        /\ Eq(p).mag = 50
        /\ run[p].content = <<Everyone>>

\* C26: for an event past the geocoding, the location shown is the first of
\* locality, city and principalSubdivision that is not empty, or Unknown when
\* all three are; and the names matched against the subscriptions are the
\* normalized forms of the fields that are not empty, in that same order and
\* nothing else.
C26_DisplayAndCandidates ==
    \A p \in Passes :
        run[p].pc \in {"channel", "old_logs", "send", "dm", "save"} =>
            LET geo == run[p].geo_response
                fields == <<geo.locality, geo.city, geo.principalSubdivision>>
                named == {i \in 1..3 : fields[i] # <<>>}
            IN /\ Display(run[p].geo_translate) =
                     IF named = {} THEN Unknown
                     ELSE fields[CHOOSE i \in named : \A j \in named : i <= j]
               /\ Len(run[p].locations) = Cardinality(named)
               /\ \A i \in named :
                     run[p].locations[Cardinality({j \in named : j <= i})]
                         = normalizeText(fields[i])

\* the answer has no locality: the location shown is the city and the names
\* matched are those of the city and of the subdivision, in this order
C26_Witness ==
    \E p \in Passes :
        /\ run[p].pc = "send"
        /\ run[p].geo_response =
              [locality |-> <<>>, city |-> Kadikoy, principalSubdivision |-> Istanbul]
        /\ Display(run[p].geo_translate) = Kadikoy
        /\ run[p].locations = <<normalizeText(Kadikoy), normalizeText(Istanbul)>>

\* the number of rows of logs that are more recent than row l
Newer(logs, l) == Cardinality({m \in logs : m.timestamp > l.timestamp})

\* C27: a row, once saved, is never changed and goes only by the pruning.  No
\* step both removes and adds rows of a guild; a step adds at most one row,
\* more recent than every row the guild has; rows are removed only by the
\* pruning step of a pass at work on that guild, each of them with at least
\* 50 more recent rows of the guild, so that the 50 most recent rows stay.
C27_RecordsImmutable ==
    [][\A t \in Tenants :
          LET removed == ledger[t] \ ledger'[t]
              added == ledger'[t] \ ledger[t]
          IN /\ (removed = {} \/ added = {})
             /\ Cardinality(added) <= 1
             /\ \A l \in added : \A m \in ledger[t] : m.timestamp < l.timestamp
             /\ (removed # {} =>
                    /\ \E p \in Passes :
                          /\ run[p].pc = "old_logs"
                          /\ Guild(p).from_guild = t
                          /\ Moves(p)
                    /\ \A l \in removed : Newer(ledger[t], l) >= 50
                    /\ \A l \in ledger[t] :
                          Newer(ledger[t], l) < 50 => l \in ledger'[t])]_vars

\* a guild that had 50 rows got one more and, by the pruning before the next
\* send, lost its oldest row: the 50 most recent are all there
C27_Witness ==
    \E p \in Passes :
        /\ run[p].pc = "send"
        /\ LET logs == ledger[Guild(p).from_guild]
           IN /\ Cardinality(logs) = 50
              /\ Log(1, TRUE, 1) \notin logs
              /\ FullLedger \ {Log(1, TRUE, 1)} \subseteq logs
              /\ \E l \in logs : l.timestamp = 51

\* the rows the guild of pass p has for the event of pass p
RowsOfEvent(p) ==
    {l \in ledger[Guild(p).from_guild] : l.source_id = Eq(p).id}

\* C28: the lookup before the dispatch of an event skips it only when the
\* guild then has a row for it that is marked delivered, and does skip it
\* when the rows it has for it are all marked so, whether or not the pass had
\* read them at its start; with no row, or with rows marked undelivered only,
\* the event is dispatched, and the save that ends the turn of an event whose
\* lookup found an undelivered row adds a further row for the same event.
C28_LookupBeforeDispatch ==
    [][\A p \in Passes :
          /\ (run[p].pc = "find_one" /\ Moves(p) =>
                 /\ (run'[p].pc # "geocode" => \E l \in RowsOfEvent(p) : l.is_delivered)
                 /\ (RowsOfEvent(p) # {} /\ (\A l \in RowsOfEvent(p) : l.is_delivered)
                        => run'[p].pc # "geocode")
                 /\ ((\A l \in RowsOfEvent(p) : ~ l.is_delivered) =>
                        /\ run'[p].pc = "geocode"
                        /\ run'[p].gi = run[p].gi /\ run'[p].ei = run[p].ei)
                 /\ (run'[p].pc = "geocode" =>
                        /\ ~ run'[p].existing_log.is_delivered
                        /\ run'[p].existing_log \in
                               (IF RowsOfEvent(p) = {} THEN {NoLog} ELSE RowsOfEvent(p))))
          /\ (run[p].pc = "save" /\ run[p].existing_log # NoLog /\ Moves(p) =>
                 /\ WritesOne(p, run[p].is_delivered)
                 /\ run[p].existing_log \in ledger'[Guild(p).from_guild]
                 /\ Cardinality({l \in ledger'[Guild(p).from_guild] :
                                    l.source_id = Eq(p).id}) >= 2)]_vars

\* a pass is about to save the row of an event whose lookup found an
\* undelivered row that another pass had saved after this pass read the rows
C28_Witness ==
    \E p \in Passes :
        /\ run[p].pc = "save"
        /\ run[p].existing_log # NoLog
        /\ run[p].existing_log \notin run[p].earthquakes
        /\ run[p].existing_log \in ledger[Guild(p).from_guild]
        /\ \A i \in 1..Len(run[p].recent_earthquakes) :
              i # run[p].ei => run[p].recent_earthquakes[i].id # Eq(p).id

\* the feed of pass p holds no source id twice
NoRepeat(p) ==
    \A i, j \in 1..Len(run[p].features) :
        run[p].features[i].id = run[p].features[j].id => i = j

\* every row ever saved for guild t is still among its rows: none was pruned
NoPrune(t) ==
    \A k \in committed : k[1] = t => k \in Keys(ledger)

\* C29: with passes one after another, when the feed of a pass holds no id
\* twice and no row of the guild has been pruned, a channel send is attempted
\* for an event only if no row was ever saved for it in that guild, and it is
\* attempted once; and the turn of an event for which a send was attempted
\* does not end before its row is saved.  So no event of a guild is sent
\* twice, in one pass or across passes.
C29_AtMostOneSend ==
    [][\A p \in Passes :
          /\ (/\ run[p].pc = "send" /\ Moves(p)
               /\ NoRepeat(p) /\ NoPrune(Guild(p).from_guild)
               => /\ Key(p) \notin committed
                  /\ run[p].posts + run[p].rejected = 0
                  /\ run'[p].posts + run'[p].rejected = 1)
          /\ (run[p].posts + run[p].rejected > 0 /\ Moves(p) =>
                 \/ /\ run'[p].pc \in {"dm", "save"}
                    /\ run'[p].gi = run[p].gi /\ run'[p].ei = run[p].ei
                    /\ run'[p].posts = run[p].posts
                    /\ run'[p].rejected = run[p].rejected
                 \/ Key(p) \in committed')]_vars

\* the second pass got both events in its feed and sends the second alone:
\* the first was sent by the pass before, its send failed and its row, marked
\* undelivered, is still there
C29_Witness ==
    \E p \in Passes :
        /\ started = 2
        /\ run[p].pc = "save"
        /\ Len(run[p].features) = 2
        /\ NoRepeat(p)
        /\ NoPrune(Guild(p).from_guild)
        /\ run[p].recent_earthquakes = <<run[p].features[2]>>
        /\ \E l \in ledger[Guild(p).from_guild] :
              l.source_id = run[p].features[1].id /\ ~ l.is_delivered

\* C30: with passes one after another, no guild ever has more than 51 rows.
\* The pruning step leaves the guild at most 50 rows and goes on to the send;
\* from the send the turn goes, through the direct messages, to the save and
\* nowhere else; the save finds at most 50 rows and adds one; and rows are
\* removed by the pruning step only, so none are removed after the last save
\* of a pass.
C30_AtMostKeepPlusOne ==
    [][/\ \A t \in Tenants :
             /\ Cardinality(ledger[t]) <= 51
             /\ Cardinality(ledger'[t]) <= 51
             /\ (~ (ledger[t] \subseteq ledger'[t]) =>
                    \E p \in Passes :
                        run[p].pc = "old_logs" /\ Guild(p).from_guild = t /\ Moves(p))
       /\ \A p \in Passes :
             Moves(p) =>
                 /\ (run[p].pc = "old_logs" =>
                        /\ Cardinality(ledger'[Guild(p).from_guild]) <= 50
                        /\ run'[p].pc = "send")
                 /\ (run[p].pc \in {"send", "dm"} =>
                        /\ ledger' = ledger
                        /\ run'[p].pc \in {"dm", "save"}
                        /\ run'[p].gi = run[p].gi /\ run'[p].ei = run[p].ei)
                 /\ (run[p].pc = "save" =>
                        /\ Cardinality(ledger[Guild(p).from_guild]) <= 50
                        /\ Cardinality(ledger'[Guild(p).from_guild]) =
                              Cardinality(ledger[Guild(p).from_guild]) + 1)]_vars

\* a pass has ended and left a guild with 51 rows
C30_Witness ==
    \E p \in Passes :
        /\ run[p].pc = "resolved"
        /\ \E t \in Tenants : Cardinality(ledger[t]) = 51

\* a call of the pass fails: the feed or the geocoder fetch throws, or the
\* channel does not resolve to a text based channel
Failing(p) ==
    \/ FeedUnavailable(p)
    \/ GeoLookupFailed(p)
    \/ ChannelNotText(p)
    \/ ChannelFetchRejected(p)

\* the step is the answer of a feed that carries the event id
Carrying(p, id) ==
    /\ run[p].pc = "fetch"
    /\ \E features \in Feeds :
         /\ Carries(features, Guild(p), id)
         /\ run' = [run EXCEPT ![p] =
                      ToEvent([@ EXCEPT !.features = features,
                                        !.recent_earthquakes =
                                   Select(features, Guild(p), run[p].earthquakes)], 1)]

\* the calls of the step succeed, and a feed that answers the last guild
\* carries event 2
Succeeding(p) ==
    /\ ~ Failing(p)
    /\ (Fetch(p) /\ Guild(p).from_guild = NumTenants => Carrying(p, 2))

Recorded(t, id) == \E l \in ledger[t] : l.source_id = id

\* C31: liveness of the delivery record.  Passes keep firing and the last
\* guild stays enabled with its channel and feed url set.  If from some point
\* on the feed fetch, the geocoder fetch and the channel resolution succeed
\* and the feed of that guild carries event 2 among its first 25 events that
\* reach the guild's limit, then a row of the guild for event 2 eventually
\* exists.
C31_EventuallyRecorded ==
    <>[][Succeeding(1)]_vars => <>Recorded(NumTenants, 2)

\* a pass fired after the counted ones is about to save the first row of
\* the last guild for event 2
C31_Witness ==
    /\ run[1].pc = "save"
    /\ Guild(1).from_guild = NumTenants
    /\ Eq(1).id = 2
    /\ ~ Recorded(NumTenants, 2)
    /\ started = MaxStarts

\* the awaits of a guild's turn and of an event's turn, in program order
Stage(pc) ==
    CASE pc = "find_logs" -> 1
      [] pc = "fetch" -> 2
      [] pc = "find_one" -> 3
      [] pc = "geocode" -> 4
      [] pc = "channel" -> 5
      [] pc = "old_logs" -> 6
      [] pc = "send" -> 7
      [] pc = "dm" -> 8
      [] pc = "save" -> 9

\* where a pass in flight is: the guild, the event, the await, the user
Position(r) == <<r.gi, r.ei, Stage(r.pc), r.di>>

\* a comes before b in the order of the loops
Before(a, b) ==
    \E k \in 1..Len(a) : a[k] < b[k] /\ \A j \in 1..(k - 1) : a[j] = b[j]

\* C32: every pass terminates, provided each call it awaits returns or fails.
\* A step of a pass in flight either ends the pass or moves it forward in the
\* order of its loops over the same guilds: a later guild, or a later event
\* of the same guild, or a later await of the same event, or the next user
\* of the direct message loop; no guild, event or call is taken again.  The
\* guild index stays within the guilds found, the event index within the
\* events selected (25 at most) and the user index within the users matched.
\* So a pass in flight eventually returns or rejects.
C32_PassTerminates ==
    /\ [][\A p \in Passes :
             /\ (~ Idle(p) =>
                   /\ run[p].gi \in 1..Len(run[p].guilds)
                   /\ run[p].ei \in 0..Len(run[p].recent_earthquakes)
                   /\ Len(run[p].recent_earthquakes) <= MaxRecent
                   /\ run[p].di \in 0..(Len(run[p].subscribedUserIds) + 1)
                   /\ (InLoop(p) => run[p].ei >= 1))
             /\ (~ Idle(p) /\ Moves(p) =>
                   \/ Idle(p)'
                   \/ /\ run'[p].guilds = run[p].guilds
                      /\ Before(Position(run[p]), Position(run'[p])))]_vars
    /\ (~ Idle(1) ~> Idle(1))

\* a pass is at the save of the second event of its second guild, after the
\* direct messages of that event
C32_Witness ==
    /\ run[1].pc = "save"
    /\ run[1].gi = 2
    /\ run[1].ei = 2
    /\ run[1].di > 1

====
